---- MODULE Spec2Model ----
(***************************************************************************)
(* A model of koa-fp-ts-router (src/src/index.ts): the Router class with   *)
(* its per-method parser table, the global middleware list, the routes()   *)
(* and allowedMethods() middlewares, and redirect().                       *)
(*                                                                         *)
(* Strings that the code splits, joins or compares piecewise (request      *)
(* paths, header values) are sequences of tokens: "/" and ", " are the     *)
(* separators, every other token is one path segment or one method name.   *)
(* Request paths are well-formed (percent escapes decode).                 *)
(*                                                                         *)
(* User functions (route handlers, global middleware) are arbitrary code:  *)
(* each call chooses one of three outcomes, it returns without calling     *)
(* next, it calls next, or it throws.                                      *)
(***************************************************************************)
EXTENDS Naturals, Sequences, FiniteSets, TLC

VARIABLES
    parsers,      \* this.parsers: method -> alternation of registered routes
    middlewares,  \* this.middlewares: the global middleware list
    basePath,     \* the basePath option handed to the constructor
    phase,        \* "configuring" until the application listens, then "serving"
    nroutes,      \* number of route registration calls made so far
    reqs          \* the requests of the application, by request slot

vars == <<parsers, middlewares, basePath, phase, nroutes, reqs>>

----------------------------------------------------------------------------
(* Bounds of the model *)

MaxRoutes == 2
MaxUse == 2
NumRequests == 2

----------------------------------------------------------------------------
(* Option values: null / undefined is None *)

None == <<>>
Some(x) == <<x>>

----------------------------------------------------------------------------
(* fp-ts-routing: matches, routes, parse and format *)

Lit(s) == [t |-> "lit", v |-> s]
Str(k) == [t |-> "str", v |-> k]
End == [t |-> "end", v |-> ""]

root == <<End>>
user == <<Lit("users"), Str("id"), End>>
oldUser == <<Str("userID"), End>>
item == <<Str("id")>>

\* Object.assign of two parameter objects, as sets of <<key, value>>
Merge(a, b) == {p \in a : ~ \E q \in b : q[1] = p[1]} \cup b

\* a[k]; a missing key reads as undefined
Lookup(a, k) ==
    IF \E p \in a : p[1] = k THEN (CHOOSE p \in a : p[1] = k)[2] ELSE "undefined"

decodeURIComponent(s) == IF s = "j%20d" THEN "j d" ELSE s
encodeURIComponent(s) == IF s = "j d" THEN "j%20d" ELSE s

\* Route.parse: split on "/", drop the empty pieces, decode each part
RECURSIVE RouteParse(_)
RouteParse(path) ==
    IF path = <<>> THEN <<>>
    ELSE IF Head(path) = "/" THEN RouteParse(Tail(path))
    ELSE <<decodeURIComponent(Head(path))>> \o RouteParse(Tail(path))

\* Array.prototype.join
RECURSIVE Join(_, _)
Join(xs, sep) ==
    IF xs = <<>> THEN <<>>
    ELSE IF Len(xs) = 1 THEN xs
    ELSE <<Head(xs), sep>> \o Join(Tail(xs), sep)

\* Route.toString: "/" followed by the encoded parts joined by "/"
RECURSIVE EncodeParts(_)
EncodeParts(parts) ==
    IF parts = <<>> THEN <<>>
    ELSE <<encodeURIComponent(Head(parts))>> \o EncodeParts(Tail(parts))

RouteToString(parts) == <<"/">> \o Join(EncodeParts(parts), "/")

\* match.parser.run: the parameters a match extracts from the parts of a
\* route, or None; a match without end accepts any remainder
RECURSIVE RunMatch(_, _, _)
RunMatch(match, parts, params) ==
    IF match = <<>> THEN Some(params)
    ELSE LET e == Head(match) IN
         IF e.t = "end"
         THEN IF parts = <<>> THEN RunMatch(Tail(match), parts, params) ELSE None
         ELSE IF parts = <<>> THEN None
         ELSE IF e.t = "lit"
         THEN IF Head(parts) = e.v
              THEN RunMatch(Tail(match), Tail(parts), params)
              ELSE None
         ELSE RunMatch(Tail(match), Tail(parts),
                       Merge(params, {<<e.v, Head(parts)>>}))

\* match.formatter.run: the parts a match formats from parameters
RECURSIVE FormatParts(_, _)
FormatParts(match, params) ==
    IF match = <<>> THEN <<>>
    ELSE LET e == Head(match) IN
         (IF e.t = "lit" THEN <<e.v>>
          ELSE IF e.t = "str" THEN <<Lookup(params, e.v)>>
          ELSE <<>>) \o FormatParts(Tail(match), params)

format(match, params) == RouteToString(FormatParts(match, params))

----------------------------------------------------------------------------
(* Middleware values *)

\* a function of the application: a route handler or a global middleware
UserFn(id) == [kind |-> "user", id |-> id, dest |-> <<>>, f |-> {}, code |-> 0]

\* the handler redirect() builds
RedirectFn(dest, f, code) ==
    [kind |-> "redirect", id |-> "redirect", dest |-> dest, f |-> f, code |-> code]

\* the function register() wraps around a handler once its match succeeded
Wrapped(params, middleware) == [k |-> "route", fn |-> middleware, params |-> params]

GlobalStage(middleware) == [k |-> "mw", fn |-> middleware, params |-> {}]
AppStage(name) == [k |-> name, fn |-> UserFn(name), params |-> {}]

\* the alternation of a Parser Slot: the first registered route whose match
\* succeeds, wrapped with its parameters; zero() is the empty alternation
RECURSIVE parse(_, _)
parse(parser, route) ==
    IF parser = <<>> THEN None
    ELSE LET m == RunMatch(Head(parser).match, route, {}) IN
         IF m # None
         THEN Some(Wrapped(m[1], Head(parser).middleware))
         ELSE parse(Tail(parser), route)

\* the method list in the order the public methods are declared
MethodsAsDeclared == <<"DELETE", "GET", "HEAD", "PATCH", "PUT", "POST">>

Methods == <<"DELETE", "GET", "HEAD", "PATCH", "POST", "PUT">>
MethodSet == {Methods[i] : i \in 1..Len(Methods)}

parseMethod(str) ==
    IF str \in {"DELETE", "GET", "HEAD", "OPTIONS", "PATCH", "PUT", "POST"}
    THEN Some(str) ELSE None

----------------------------------------------------------------------------
(* Inputs *)

\* the (match, handler) pairs the application registers
RouteTable ==
    { <<root, UserFn("h1")>>, <<user, UserFn("h2")>>,
      <<oldUser, UserFn("h1")>>, <<item, UserFn("h2")>> }

\* the functions f of redirect(src, dest, f), as sets of <<key of B, key of A>>
userIDToId == {<<"id", "userID">>}

\* f(a)
Apply(f, a) == {<<p[1], Lookup(a, p[2])>> : p \in f}

\* the (src, dest, f) triples the application redirects
Redirects == { <<oldUser, user, userIDToId>> }

\* the code argument of redirect(): omitted, or 301
Codes == {None, Some(301)}

GlobalMiddlewares == {UserFn("m1"), UserFn("m2")}

BasePaths == { <<"/">>, <<"/", "admin", "/">> }

RequestMethods == MethodSet \cup {"OPTIONS", "TRACE"}

Paths ==
    { <<"/">>, <<"/", "users", "/", "john">>, <<"/", "john">>,
      <<"/", "j%20d">> }

Outcomes == {"return", "next", "throw"}

----------------------------------------------------------------------------
(* State *)

NewCtx ==
    [status |-> 404, body |-> None, allow |-> None, location |-> None,
     params |-> None]

Idle ==
    [pc |-> "idle", method |-> "", path |-> <<>>, todo |-> <<>>, ctx |-> NewCtx,
     trace |-> <<>>, routesNext |-> 0, allowedNext |-> 0, error |-> None]

\* the application: app.use(router.routes()); app.use(router.allowedMethods())
app == <<AppStage("routes"), AppStage("allowedMethods")>>

Init ==
    /\ parsers = [m \in MethodSet |-> <<>>]
    /\ middlewares = <<>>
    /\ basePath \in BasePaths
    /\ phase = "configuring"
    /\ nroutes = 0
    /\ reqs = [r \in 1..NumRequests |-> Idle]

----------------------------------------------------------------------------
(* Registration *)

\* register putting the new alternative in front of the earlier ones
registerInFront(ps, method, match, middleware) ==
    [ps EXCEPT ![method] = <<[match |-> match, middleware |-> middleware]>> \o @]

register(ps, method, match, middleware) ==
    [ps EXCEPT ![method] = Append(@, [match |-> match, middleware |-> middleware])]

RECURSIVE registerEach(_, _, _, _)
registerEach(ps, methods, match, middleware) ==
    IF methods = <<>> THEN ps
    ELSE registerEach(register(ps, Head(methods), match, middleware),
                      Tail(methods), match, middleware)

all(ps, match, middleware) ==
    registerEach(ps, <<"DELETE", "GET", "PATCH", "POST", "PUT">>, match, middleware)

\* get registering under GET only
getWithoutHead(ps, match, middleware) == register(ps, "GET", match, middleware)

get(ps, match, middleware) ==
    register(register(ps, "GET", match, middleware), "HEAD", match, middleware)

redirect(ps, src, dest, f, code) ==
    all(ps, src, RedirectFn(dest, f, IF code = None THEN 302 ELSE code[1]))

CanRegister == phase = "configuring" /\ nroutes < MaxRoutes

Registered(ps) ==
    /\ parsers' = ps
    /\ nroutes' = nroutes + 1
    /\ UNCHANGED <<middlewares, basePath, phase, reqs>>

Delete ==
    /\ CanRegister
    /\ \E rt \in RouteTable : Registered(register(parsers, "DELETE", rt[1], rt[2]))

Get ==
    /\ CanRegister
    /\ \E rt \in RouteTable : Registered(get(parsers, rt[1], rt[2]))

Patch ==
    /\ CanRegister
    /\ \E rt \in RouteTable : Registered(register(parsers, "PATCH", rt[1], rt[2]))

Post ==
    /\ CanRegister
    /\ \E rt \in RouteTable : Registered(register(parsers, "POST", rt[1], rt[2]))

Put ==
    /\ CanRegister
    /\ \E rt \in RouteTable : Registered(register(parsers, "PUT", rt[1], rt[2]))

Redirect ==
    /\ CanRegister
    /\ \E rd \in Redirects, code \in Codes :
          Registered(redirect(parsers, rd[1], rd[2], rd[3], code))

Use ==
    /\ phase = "configuring"
    /\ Len(middlewares) < MaxUse
    /\ \E middleware \in GlobalMiddlewares :
          middlewares' = Append(middlewares, middleware)
    /\ UNCHANGED <<parsers, basePath, phase, nroutes, reqs>>

Listen ==
    /\ phase = "configuring"
    /\ phase' = "serving"
    /\ UNCHANGED <<parsers, middlewares, basePath, nroutes, reqs>>

----------------------------------------------------------------------------
(* Request handling *)

\* one entry of a request's trace: the kind and name of a function that ran,
\* the ctx.params it saw when its body started, and how it ended ("next": it
\* called next, "return", "throw", or "dispatch": it ran a composed chain)
Ran(k, name, params, out) == [k |-> k, fn |-> name, params |-> params, out |-> out]

\* koa-compose: the stages run in order; each runs when the one before it
\* calls next, and the promise settles when a stage returns without next
compose(stages) == stages

\* the promise of the chain resolves when no stage is left to run
Settle(q) == IF q.pc = "run" /\ q.todo = <<>> THEN [q EXCEPT !.pc = "done"] ELSE q

\* a stage returned without calling next
Return(q) == [q EXCEPT !.todo = <<>>, !.pc = "done"]

\* Throw caught inside routes(), which calls the downstream next instead
ThrowCaught(q, err) ==
    [q EXCEPT !.todo = SubSeq(@, Len(@), Len(@)), !.routesNext = @ + 1]

\* a stage threw: the rejection reaches the caller of the whole chain
Throw(q, err) == [q EXCEPT !.todo = <<>>, !.pc = "failed", !.error = Some(err)]

\* allowedMethodsOf filtering the five methods of all() instead of the
\* canonical list
allowedMethodsOfAll(ps, path) ==
    SelectSeq(<<"DELETE", "GET", "PATCH", "POST", "PUT">>,
              LAMBDA m : parse(ps[m], RouteParse(path)) # None)

\* the methods of the canonical list whose Parser Slot matches the path
allowedMethodsOf(ps, path) ==
    SelectSeq(Methods, LAMBDA m : parse(ps[m], RouteParse(path)) # None)

Running(r, stage) ==
    /\ reqs[r].pc = "run"
    /\ reqs[r].todo # <<>>
    /\ Head(reqs[r].todo).k = stage

\* Step with one params field for all the requests in flight
StepSharesParams(r, q) ==
    /\ reqs' = [o \in 1..NumRequests |->
                  IF o = r THEN q
                  ELSE IF reqs[o].pc = "run"
                       THEN [reqs[o] EXCEPT !.ctx.params = q.ctx.params]
                       ELSE reqs[o]]
    /\ UNCHANGED <<parsers, middlewares, basePath, phase, nroutes>>

Step(r, q) ==
    /\ reqs' = [reqs EXCEPT ![r] = q]
    /\ UNCHANGED <<parsers, middlewares, basePath, phase, nroutes>>

\* a request reaches the application; the test client awaits each response
\* before it sends the next request
Arrive(r) ==
    /\ phase = "serving"
    /\ \A o \in 1..NumRequests : reqs[o].pc = "idle"
    /\ r = 1
    /\ \E method \in RequestMethods, path \in Paths :
          Step(r, [Idle EXCEPT !.pc = "run", !.method = method, !.path = path,
                               !.todo = compose(app)])

\* routesMiddleware composing the global middleware before it looks at the match
routesMiddlewareComposesFirst(q, ps, mws) ==
    LET method == parseMethod(q.method)
        callNext == [q EXCEPT !.todo = Tail(@), !.routesNext = @ + 1,
                              !.trace = Append(@, Ran("routes", "routes",
                                                      q.ctx.params, "next"))]
    IN  IF method = None \/ method = Some("OPTIONS") THEN callNext
        ELSE LET middleware == parse(ps[method[1]], RouteParse(q.path))
             IN  [q EXCEPT !.trace = Append(@, Ran("routes", "routes",
                                                   q.ctx.params, "dispatch")),
                           !.todo =
                              compose([i \in 1..Len(mws) |-> GlobalStage(mws[i])]
                                      \o middleware) \o Tail(@)]

\* routesMiddleware composing the matched handler in front of the global
\* middleware
routesMiddlewareHandlerFirst(q, ps, mws) ==
    LET method == parseMethod(q.method)
        callNext == [q EXCEPT !.todo = Tail(@), !.routesNext = @ + 1,
                              !.trace = Append(@, Ran("routes", "routes",
                                                      q.ctx.params, "next"))]
    IN  IF method = None \/ method = Some("OPTIONS") THEN callNext
        ELSE LET middleware == parse(ps[method[1]], RouteParse(q.path))
             IN  IF middleware = None THEN callNext
                 ELSE [q EXCEPT !.trace = Append(@, Ran("routes", "routes",
                                                        q.ctx.params, "dispatch")),
                                !.todo =
                                   compose(<<middleware[1]>> \o
                                           [i \in 1..Len(mws) |-> GlobalStage(mws[i])])
                                   \o Tail(@)]

\* the middleware routes() returns
\* routesMiddleware looking an OPTIONS request up in the GET slot
routesMiddlewareOptionsAsGet(q, ps, mws) ==
    LET method == IF q.method = "OPTIONS" THEN Some("GET") ELSE parseMethod(q.method)
        callNext == [q EXCEPT !.todo = Tail(@), !.routesNext = @ + 1,
                              !.trace = Append(@, Ran("routes", "routes",
                                                      q.ctx.params, "next"))]
    IN  IF method = None THEN callNext
        ELSE LET middleware == parse(ps[method[1]], RouteParse(q.path))
             IN  IF middleware = None THEN callNext
                 ELSE [q EXCEPT !.trace = Append(@, Ran("routes", "routes",
                                                        q.ctx.params, "dispatch")),
                                !.todo =
                          compose([i \in 1..Len(mws) |-> GlobalStage(mws[i])]
                                  \o <<middleware[1]>>) \o Tail(@)]

\* routesMiddleware assigning the params itself as soon as the parse succeeds
routesMiddlewareAssignsParams(q, ps, mws) ==
    LET method == parseMethod(q.method)
        callNext == [q EXCEPT !.todo = Tail(@), !.routesNext = @ + 1,
                              !.trace = Append(@, Ran("routes", "routes",
                                                      q.ctx.params, "next"))]
    IN  IF method = None \/ method = Some("OPTIONS") THEN callNext
        ELSE LET middleware == parse(ps[method[1]], RouteParse(q.path))
             IN  IF middleware = None THEN callNext
                 ELSE [q EXCEPT !.trace = Append(@, Ran("routes", "routes",
                                                        q.ctx.params, "dispatch")),
                                !.ctx.params = Some(middleware[1].params),
                                !.todo =
                          compose([i \in 1..Len(mws) |-> GlobalStage(mws[i])]
                                  \o <<middleware[1]>>) \o Tail(@)]

routesMiddleware(q, ps, mws) ==
    LET method == parseMethod(q.method)
        callNext == [q EXCEPT !.todo = Tail(@), !.routesNext = @ + 1,
                              !.trace = Append(@, Ran("routes", "routes",
                                                      q.ctx.params, "next"))]
    IN  IF method = None \/ method = Some("OPTIONS") THEN callNext
        ELSE LET middleware == parse(ps[method[1]], RouteParse(q.path))
             IN  IF middleware = None THEN callNext
                 ELSE [q EXCEPT !.trace = Append(@, Ran("routes", "routes",
                                                        q.ctx.params, "dispatch")),
                                !.todo =
                          compose([i \in 1..Len(mws) |-> GlobalStage(mws[i])]
                                  \o <<middleware[1]>>) \o Tail(@)]

\* Routes taking the global middleware it composes out of the list
RoutesConsumesList(r) ==
    /\ Running(r, "routes")
    /\ reqs' = [reqs EXCEPT
                  ![r] = Settle(routesMiddleware(reqs[r], parsers, middlewares))]
    /\ middlewares' = IF reqs'[r].trace[1].out = "dispatch" THEN <<>> ELSE middlewares
    /\ UNCHANGED <<parsers, basePath, phase, nroutes>>

Routes(r) ==
    /\ Running(r, "routes")
    /\ Step(r, Settle(routesMiddleware(reqs[r], parsers, middlewares)))

\* a global middleware of the application runs
globalMiddleware(q, outcome) ==
    LET fn == Head(q.todo).fn
        entered == [q EXCEPT !.trace = Append(@, Ran("mw", fn.id, q.ctx.params,
                                                     outcome))]
    IN  IF outcome = "next" THEN [entered EXCEPT !.todo = Tail(@)]
        ELSE IF outcome = "return"
        THEN Return([entered EXCEPT !.ctx.status = 401])
        ELSE Throw(entered, fn.id)

GlobalMiddleware(r) ==
    /\ Running(r, "mw")
    /\ \E outcome \in Outcomes : Step(r, Settle(globalMiddleware(reqs[r], outcome)))

\* redirectHandler without the assignment of ctx.status after ctx.redirect
redirectHandlerKeeps302(q, fn) ==
    LET params == Apply(fn.f, q.ctx.params[1])
        path == format(fn.dest, params)
    IN  Return([q EXCEPT !.ctx.location = Some(path),
                         !.ctx.body = Some(<<"Redirecting to">> \o path),
                         !.ctx.status = 302])

\* the handler redirect() registers
redirectHandler(q, fn) ==
    LET params == Apply(fn.f, q.ctx.params[1])
        path == format(fn.dest, params)
    IN  Return([q EXCEPT !.ctx.location = Some(path),
                         !.ctx.body = Some(<<"Redirecting to">> \o path),
                         !.ctx.status = fn.code])

\* a handler of the application
userHandler(q, fn, outcome) ==
    LET written == [q EXCEPT !.ctx.body = Some(<<fn.id>>), !.ctx.status = 200]
    IN  IF outcome = "next"
        THEN [written EXCEPT !.todo = Tail(@), !.routesNext = @ + 1]
        ELSE IF outcome = "return" THEN Return(written)
        ELSE Throw(q, fn.id)

\* wrappedHandler without the assignment of ctx.params
wrappedHandlerKeepsParams(q, outcome) ==
    LET stage == Head(q.todo)
        entered == [q EXCEPT !.trace = Append(@, Ran("route", stage.fn.id,
                                                     q.ctx.params,
                                                     IF stage.fn.kind = "redirect"
                                                     THEN "return" ELSE outcome))]
    IN  IF stage.fn.kind = "redirect"
        THEN Return([entered EXCEPT !.ctx.status = stage.fn.code])
        ELSE userHandler(entered, stage.fn, outcome)

\* the function register() wraps around the handler of the matched route
wrappedHandler(q, outcome) ==
    LET stage == Head(q.todo)
        assigned == [q EXCEPT !.ctx.params = Some(stage.params)]
        entered == [assigned EXCEPT
                       !.trace = Append(@, Ran("route", stage.fn.id,
                                               assigned.ctx.params,
                                               IF stage.fn.kind = "redirect"
                                               THEN "return" ELSE outcome))]
    IN  IF stage.fn.kind = "redirect" THEN redirectHandler(entered, stage.fn)
        ELSE userHandler(entered, stage.fn, outcome)

RouteHandler(r) ==
    /\ Running(r, "route")
    /\ \E outcome \in Outcomes : Step(r, Settle(wrappedHandler(reqs[r], outcome)))

\* allowedMethodsMiddleware answering 405 without the Allow header
allowedMethodsMiddlewareBare405(q, ps) ==
    LET method == parseMethod(q.method)
        allowedMethods == allowedMethodsOf(ps, q.path)
        includes == \E i \in 1..Len(allowedMethods) : allowedMethods[i] = method[1]
        entered == [q EXCEPT !.trace =
                       Append(@, Ran("allowedMethods", "allowedMethods", q.ctx.params,
                                     IF method # None /\ method # Some("OPTIONS")
                                        /\ includes
                                     THEN "next" ELSE "return"))]
    IN  IF method = None THEN Return([entered EXCEPT !.ctx.status = 501])
        ELSE IF method = Some("OPTIONS")
        THEN Return([entered EXCEPT !.ctx.status = 200, !.ctx.body = Some(<<>>),
                                    !.ctx.allow = Some(Join(allowedMethods, ", "))])
        ELSE IF includes
        THEN [entered EXCEPT !.todo = Tail(@), !.allowedNext = @ + 1]
        ELSE Return([entered EXCEPT !.ctx.status = 405])

\* allowedMethodsMiddleware passing an unknown method on like routes() does
allowedMethodsMiddlewareSkipsUnknown(q, ps) ==
    LET method == parseMethod(q.method)
        allowedMethods == allowedMethodsOf(ps, q.path)
        includes == \E i \in 1..Len(allowedMethods) : allowedMethods[i] = method[1]
        entered == [q EXCEPT !.trace =
                       Append(@, Ran("allowedMethods", "allowedMethods", q.ctx.params,
                                     IF method = None
                                        \/ (method # Some("OPTIONS") /\ includes)
                                     THEN "next" ELSE "return"))]
    IN  IF method = None
        THEN [entered EXCEPT !.todo = Tail(@), !.allowedNext = @ + 1]
        ELSE IF method = Some("OPTIONS")
        THEN Return([entered EXCEPT !.ctx.status = 200, !.ctx.body = Some(<<>>),
                                    !.ctx.allow = Some(Join(allowedMethods, ", "))])
        ELSE IF includes
        THEN [entered EXCEPT !.todo = Tail(@), !.allowedNext = @ + 1]
        ELSE Return([entered EXCEPT !.ctx.status = 405,
                                    !.ctx.allow = Some(Join(allowedMethods, ", "))])

\* allowedMethodsMiddleware returning without next() for an allowed method
allowedMethodsMiddlewareStopsAllowed(q, ps) ==
    LET method == parseMethod(q.method)
        allowedMethods == allowedMethodsOf(ps, q.path)
        includes == \E i \in 1..Len(allowedMethods) : allowedMethods[i] = method[1]
        entered == [q EXCEPT !.trace =
                       Append(@, Ran("allowedMethods", "allowedMethods", q.ctx.params,
                                     "return"))]
    IN  IF method = None THEN Return([entered EXCEPT !.ctx.status = 501])
        ELSE IF method = Some("OPTIONS")
        THEN Return([entered EXCEPT !.ctx.status = 200, !.ctx.body = Some(<<>>),
                                    !.ctx.allow = Some(Join(allowedMethods, ", "))])
        ELSE IF includes
        THEN Return(entered)
        ELSE Return([entered EXCEPT !.ctx.status = 405,
                                    !.ctx.allow = Some(Join(allowedMethods, ", "))])

\* the middleware allowedMethods() returns
allowedMethodsMiddleware(q, ps) ==
    LET method == parseMethod(q.method)
        allowedMethods == allowedMethodsOf(ps, q.path)
        includes == \E i \in 1..Len(allowedMethods) : allowedMethods[i] = method[1]
        entered == [q EXCEPT !.trace =
                       Append(@, Ran("allowedMethods", "allowedMethods", q.ctx.params,
                                     IF method # None /\ method # Some("OPTIONS")
                                        /\ includes
                                     THEN "next" ELSE "return"))]
    IN  IF method = None THEN Return([entered EXCEPT !.ctx.status = 501])
        ELSE IF method = Some("OPTIONS")
        THEN Return([entered EXCEPT !.ctx.status = 200, !.ctx.body = Some(<<>>),
                                    !.ctx.allow = Some(Join(allowedMethods, ", "))])
        ELSE IF includes
        THEN [entered EXCEPT !.todo = Tail(@), !.allowedNext = @ + 1]
        ELSE Return([entered EXCEPT !.ctx.status = 405,
                                    !.ctx.allow = Some(Join(allowedMethods, ", "))])

AllowedMethods(r) ==
    /\ Running(r, "allowedMethods")
    /\ Step(r, Settle(allowedMethodsMiddleware(reqs[r], parsers)))

\* the response is sent and the context of the request is discarded
Respond(r) ==
    /\ reqs[r].pc \in {"done", "failed"}
    /\ Step(r, Idle)

----------------------------------------------------------------------------

Next ==
    \/ Delete
    \/ Get
    \/ Patch
    \/ Post
    \/ Put
    \/ Redirect
    \/ Use
    \/ Listen
    \/ \E r \in 1..NumRequests : Arrive(r)
    \/ \E r \in 1..NumRequests : Routes(r)
    \/ \E r \in 1..NumRequests : GlobalMiddleware(r)
    \/ \E r \in 1..NumRequests : RouteHandler(r)
    \/ \E r \in 1..NumRequests : AllowedMethods(r)
    \/ \E r \in 1..NumRequests : Respond(r)

Spec == Init /\ [][Next]_vars

----------------------------------------------------------------------------
(* Requests in flight together *)

\* a listening application: router.use(m1), router.get(user, h2),
\* router.get(oldUser, h1), then app.use(router.routes()) and
\* app.use(router.allowedMethods())
InitConcurrent ==
    /\ parsers = get(get([m \in MethodSet |-> <<>>], user, UserFn("h2")),
                     oldUser, UserFn("h1"))
    /\ middlewares = <<UserFn("m1")>>
    /\ basePath \in BasePaths
    /\ phase = "serving"
    /\ nroutes = 2
    /\ reqs = [r \in 1..NumRequests |-> Idle]

\* a request reaches the application while others are still being handled:
\* every await in a chain lets the server start on another request
ArriveConcurrent(r) ==
    /\ phase = "serving"
    /\ reqs[r].pc = "idle"
    /\ \E method \in RequestMethods, path \in Paths :
          Step(r, [Idle EXCEPT !.pc = "run", !.method = method, !.path = path,
                               !.todo = compose(app)])

NextConcurrent ==
    \/ \E r \in 1..NumRequests : ArriveConcurrent(r)
    \/ \E r \in 1..NumRequests : Routes(r)
    \/ \E r \in 1..NumRequests : GlobalMiddleware(r)
    \/ \E r \in 1..NumRequests : RouteHandler(r)
    \/ \E r \in 1..NumRequests : AllowedMethods(r)
    \/ \E r \in 1..NumRequests : Respond(r)

SpecConcurrent == InitConcurrent /\ [][NextConcurrent]_vars

----------------------------------------------------------------------------
(* Vocabulary of the claims *)

Reqs == 1..NumRequests

\* the method is one of DELETE, GET, HEAD, PATCH, POST, PUT
Recognized(q) == q.method \in MethodSet

Active(q) == q.pc # "idle"
Finished(q) == q.pc \in {"done", "failed"}

\* the values a pattern extracts from a path, or None
Extract(match, path) == RunMatch(match, RouteParse(path), {})

\* the registrations of a slot whose pattern the path satisfies
Satisfying(slot, path) == {i \in 1..Len(slot) : Extract(slot[i].match, path) # None}

\* the first of them in registration order
FirstSatisfying(slot, path) ==
    CHOOSE i \in Satisfying(slot, path) : \A j \in Satisfying(slot, path) : i <= j

HandlerRuns(q) == SelectSeq(q.trace, LAMBDA e : e.k = "route")
MiddlewareRuns(q) == SelectSeq(q.trace, LAMBDA e : e.k = "mw")

\* every global middleware ran and called next
AllCalledNext(q) ==
    /\ Len(MiddlewareRuns(q)) = Len(middlewares)
    /\ \A i \in 1..Len(MiddlewareRuns(q)) : MiddlewareRuns(q)[i].out = "next"

----------------------------------------------------------------------------
(* C1 *)

\* C1 as stated: for every registered (method, pattern, handler) triple, a
\* finished request with that method and a path satisfying the pattern has
\* invoked exactly that handler, which saw the values the pattern extracted.
C1_EveryTripleDispatched ==
    \A r \in Reqs :
        LET q == reqs[r] IN
        (Finished(q) /\ Recognized(q)) =>
            \A i \in Satisfying(parsers[q.method], q.path) :
                LET e == parsers[q.method][i] IN
                /\ Len(HandlerRuns(q)) = 1
                /\ HandlerRuns(q)[1].fn = e.middleware.id
                /\ HandlerRuns(q)[1].params = Some(Extract(e.match, q.path)[1])

\* C1 amended: when the path of a request satisfies a pattern registered under
\* its method, the only handler routes() ever invokes is the handler of the
\* first-registered such triple, at most once, and it sees ctx.params equal to
\* the values that pattern extracted; it is invoked exactly once by the time
\* the request finishes if every Global Middleware called next.
C1_FirstTripleDispatched ==
    \A r \in Reqs :
        LET q == reqs[r] IN
        (Active(q) /\ Recognized(q) /\ Satisfying(parsers[q.method], q.path) # {}) =>
            LET e == parsers[q.method][FirstSatisfying(parsers[q.method], q.path)]
                runs == HandlerRuns(q)
            IN  /\ Len(runs) <= 1
                /\ \A k \in 1..Len(runs) :
                      /\ runs[k].fn = e.middleware.id
                      /\ runs[k].params = Some(Extract(e.match, q.path)[1])
                /\ (Finished(q) /\ AllCalledNext(q)) => Len(runs) = 1

\* a finished request whose path satisfies two patterns of its method's slot,
\* dispatched to a handler behind a global middleware
C1_Witness ==
    \E r \in Reqs :
        LET q == reqs[r] IN
        /\ Finished(q) /\ Recognized(q)
        /\ Cardinality(Satisfying(parsers[q.method], q.path)) >= 2
        /\ middlewares # <<>>
        /\ Len(HandlerRuns(q)) = 1

----------------------------------------------------------------------------
(* C2 *)

\* C2: for a request whose method is one of DELETE/GET/HEAD/PATCH/POST/PUT and
\* whose path satisfies no pattern registered under that method, routes() calls
\* its next exactly once and does nothing else: no global middleware and no
\* handler runs, and when routes() has just run the context is as it arrived
\* (no status, header, body or params written).
C2_UnmatchedIsTransparent ==
    \A r \in Reqs :
        LET q == reqs[r] IN
        (Active(q) /\ Recognized(q) /\ Satisfying(parsers[q.method], q.path) = {}
            /\ q.trace # <<>>) =>
            /\ q.trace[1] = Ran("routes", "routes", None, "next")
            /\ q.routesNext = 1
            /\ HandlerRuns(q) = <<>>
            /\ MiddlewareRuns(q) = <<>>
            /\ q.ctx.params = None
            /\ q.ctx.body = None
            /\ q.ctx.location = None
            /\ q.error = None
            /\ Len(q.trace) = 1 => (q.ctx = NewCtx /\ q.pc = "run")

\* routes() has just passed on a request whose path matches under another
\* method only, in a router with global middleware
C2_Witness ==
    \E r \in Reqs :
        LET q == reqs[r] IN
        /\ Active(q) /\ Recognized(q)
        /\ Satisfying(parsers[q.method], q.path) = {}
        /\ \E m \in MethodSet : Satisfying(parsers[m], q.path) # {}
        /\ middlewares # <<>>
        /\ Len(q.trace) = 1
        /\ q.routesNext = 1

----------------------------------------------------------------------------
(* C3 *)

\* the GET slot and the HEAD slot give the same answer on a path: both fail, or
\* both select the same handler with the same params
GetHeadAgree(ps, path) ==
    parse(ps["GET"], RouteParse(path)) = parse(ps["HEAD"], RouteParse(path))

----------------------------------------------------------------------------
(* C4 *)

\* the methods whose Parser Slot holds a pattern that the path satisfies
MatchingMethods(path) == {m \in MethodSet : Satisfying(parsers[m], path) # {}}

\* DELETE, GET, HEAD, PATCH, POST, PUT in this order
CanonicalRank(m) ==
    CASE m = "DELETE" -> 1 [] m = "GET" -> 2 [] m = "HEAD" -> 3
      [] m = "PATCH" -> 4 [] m = "POST" -> 5 [] m = "PUT" -> 6

\* the header value lists exactly the methods of S, each once, in canonical
\* order, joined by ", "
AllowLists(h, S) ==
    /\ Len(h) = IF S = {} THEN 0 ELSE 2 * Cardinality(S) - 1
    /\ \A i \in 1..Len(h) : IF i % 2 = 0 THEN h[i] = ", " ELSE h[i] \in S
    /\ \A i, j \in 1..Len(h) :
          (i % 2 = 1 /\ j % 2 = 1 /\ i < j) =>
              CanonicalRank(h[i]) < CanonicalRank(h[j])

AllowedMethodsRan(q) == \E i \in 1..Len(q.trace) : q.trace[i].k = "allowedMethods"

\* C4: an OPTIONS request that reaches allowedMethods() is answered there with
\* status 200, an empty body and an Allow header listing exactly the methods of
\* DELETE, GET, HEAD, PATCH, POST, PUT whose Parser Slot matches the path, in
\* that order, joined by ", "; allowedMethods() does not call next.
C4_OptionsAnswered ==
    \A r \in Reqs :
        LET q == reqs[r] IN
        (Active(q) /\ q.method = "OPTIONS" /\ AllowedMethodsRan(q)) =>
            /\ q.pc = "done"
            /\ q.ctx.status = 200
            /\ q.ctx.body = Some(<<>>)
            /\ q.ctx.allow # None
            /\ AllowLists(q.ctx.allow[1], MatchingMethods(q.path))
            /\ q.allowedNext = 0
            /\ q.trace[Len(q.trace)].k = "allowedMethods"
            /\ HandlerRuns(q) = <<>>
            /\ MiddlewareRuns(q) = <<>>

\* OPTIONS on a path with a get and a post route: Allow is "GET, HEAD, POST"
C4_Witness ==
    \E r \in Reqs :
        LET q == reqs[r] IN
        /\ q.pc = "done" /\ q.method = "OPTIONS"
        /\ q.ctx.status = 200
        /\ q.ctx.allow = Some(<<"GET", ", ", "HEAD", ", ", "POST">>)

----------------------------------------------------------------------------
(* C5 *)

\* C5: a request with a method of DELETE/GET/HEAD/PATCH/POST/PUT on a path that
\* matches under another method but not under its own, once it reaches
\* allowedMethods(), is answered there with status 405 and the Allow header an
\* OPTIONS request on that path gets; allowedMethods() does not call next.
C5_MethodNotAllowed ==
    \A r \in Reqs :
        LET q == reqs[r] IN
        (Active(q) /\ Recognized(q) /\ AllowedMethodsRan(q)
            /\ Satisfying(parsers[q.method], q.path) = {}
            /\ MatchingMethods(q.path) # {}) =>
            /\ q.pc = "done"
            /\ q.ctx.status = 405
            /\ q.ctx.allow # None
            /\ AllowLists(q.ctx.allow[1], MatchingMethods(q.path))
            /\ q.ctx.allow =
                 allowedMethodsMiddleware([q EXCEPT !.method = "OPTIONS"],
                                          parsers).ctx.allow
            /\ q.allowedNext = 0
            /\ q.trace[Len(q.trace)].k = "allowedMethods"

\* PUT on a path with a get and a post route: 405 and Allow "GET, HEAD, POST"
C5_Witness ==
    \E r \in Reqs :
        LET q == reqs[r] IN
        /\ q.pc = "done" /\ q.method = "PUT"
        /\ q.ctx.status = 405
        /\ q.ctx.allow = Some(<<"GET", ", ", "HEAD", ", ", "POST">>)

----------------------------------------------------------------------------
(* C6 *)

\* C6: through routes() and then allowedMethods(), a finished request with a
\* method of DELETE/GET/HEAD/PATCH/POST/PUT whose path matches no route under
\* any method was passed on by both: no status and no Allow header written.
C6_UnroutedPassesThrough ==
    \A r \in Reqs :
        LET q == reqs[r] IN
        (Finished(q) /\ Recognized(q) /\ MatchingMethods(q.path) = {}) =>
            /\ q.ctx.status = NewCtx.status
            /\ q.ctx.allow = None
            /\ q.routesNext = 1
            /\ q.allowedNext = 1

----------------------------------------------------------------------------
(* C7 *)

\* C7: for a request whose method is none of DELETE, GET, HEAD, OPTIONS, PATCH,
\* POST, PUT, routes() calls next and leaves the context as it arrived, and
\* allowedMethods() then sets status 501, writes nothing else and does not call
\* next, whatever the path and the registered routes.
C7_UnknownMethod ==
    \A r \in Reqs :
        LET q == reqs[r] IN
        (Active(q) /\ q.method \notin MethodSet \cup {"OPTIONS"}) =>
            /\ HandlerRuns(q) = <<>>
            /\ MiddlewareRuns(q) = <<>>
            /\ q.trace # <<>> =>
                  (q.trace[1] = Ran("routes", "routes", None, "next")
                   /\ q.routesNext = 1)
            /\ Len(q.trace) = 1 => (q.ctx = NewCtx /\ q.pc = "run")
            /\ Len(q.trace) >= 2 =>
                  /\ Len(q.trace) = 2
                  /\ q.trace[2].k = "allowedMethods"
                  /\ q.pc = "done"
                  /\ q.ctx = [NewCtx EXCEPT !.status = 501]
                  /\ q.allowedNext = 0

\* a TRACE request answered 501 on a path that has routes, behind middleware
C7_Witness ==
    \E r \in Reqs :
        LET q == reqs[r] IN
        /\ q.pc = "done" /\ q.method = "TRACE"
        /\ q.ctx.status = 501
        /\ MatchingMethods(q.path) # {}
        /\ middlewares # <<>>

----------------------------------------------------------------------------
(* C8 *)

RedirectMethods == {"DELETE", "GET", "PATCH", "POST", "PUT"}

\* C8 as stated: once redirect(src, dest, f, code) is registered, every
\* finished request with a method of DELETE/GET/PATCH/POST/PUT whose path
\* matches src with parameters p has Location format(dest, f(p)) and status
\* code.
C8_RedirectAnswersAll ==
    \A r \in Reqs :
        LET q == reqs[r] IN
        (Finished(q) /\ q.method \in RedirectMethods) =>
            \A i \in Satisfying(parsers[q.method], q.path) :
                LET e == parsers[q.method][i] IN
                e.middleware.kind = "redirect" =>
                    /\ q.ctx.location =
                         Some(format(e.middleware.dest,
                                     Apply(e.middleware.f, Extract(e.match, q.path)[1])))
                    /\ q.ctx.status = e.middleware.code

\* C8 amended: redirect(src, dest, f, code) appends one redirect route, with
\* code 302 when the code is omitted, to the slot of each of DELETE, GET,
\* PATCH, POST, PUT; a request with one of these methods whose path matches
\* src with parameters p, when no route registered earlier under that method
\* matches the path and every Global Middleware calls next, is answered by
\* that route alone: Location is format(dest, f(p)), the status is code, and
\* next is not called.
C8_RedirectAnswersFirstMatch ==
    /\ [](\A r \in Reqs :
            LET q == reqs[r] IN
            (Finished(q) /\ q.method \in RedirectMethods
                /\ Satisfying(parsers[q.method], q.path) # {}
                /\ AllCalledNext(q)) =>
                LET e == parsers[q.method][FirstSatisfying(parsers[q.method], q.path)]
                IN  e.middleware.kind = "redirect" =>
                        /\ q.pc = "done"
                        /\ q.ctx.location =
                             Some(format(e.middleware.dest,
                                         Apply(e.middleware.f,
                                               Extract(e.match, q.path)[1])))
                        /\ q.ctx.status = e.middleware.code
                        /\ Len(HandlerRuns(q)) = 1
                        /\ q.routesNext = 0)
    /\ [][Redirect =>
            \E rd \in Redirects, code \in Codes :
                LET e == [match |-> rd[1],
                          middleware |->
                              RedirectFn(rd[2], rd[3],
                                         IF code = None THEN 302 ELSE code[1])]
                IN  \A m \in RedirectMethods : parsers'[m] = Append(parsers[m], e)
         ]_vars

\* DELETE /j%20d answered by the redirect of the tests, behind a middleware
C8_Witness ==
    \E r \in Reqs :
        LET q == reqs[r] IN
        /\ q.pc = "done" /\ q.method = "DELETE"
        /\ q.path = <<"/", "j%20d">>
        /\ middlewares # <<>>
        /\ q.ctx.location = Some(<<"/", "users", "/", "j%20d">>)
        /\ q.ctx.status = 302

----------------------------------------------------------------------------
(* C9 *)

\* a path below a base path: "/admin/" and "/users/john" give
\* "/admin/users/john", and the default base path "/" changes nothing
WithBasePath(base, path) == base \o Tail(path)

\* C9: the Location of every redirect that a redirect() route issued is the
\* formatted destination path prefixed with the base path the router was
\* constructed with.
C9_LocationHasBasePath ==
    \A r \in Reqs :
        LET q == reqs[r] IN
        (q.pc = "done" /\ HandlerRuns(q) # <<>>
            /\ HandlerRuns(q)[1].fn = "redirect") =>
            LET e == parsers[q.method][FirstSatisfying(parsers[q.method], q.path)]
            IN  q.ctx.location =
                    Some(WithBasePath(basePath,
                                      format(e.middleware.dest,
                                             Apply(e.middleware.f,
                                                   Extract(e.match, q.path)[1]))))

----------------------------------------------------------------------------
(* C10 *)

\* the global middleware and handlers that ran for a request, in order
UserRuns(q) == SelectSeq(q.trace, LAMBDA e : e.k \in {"mw", "route"})

\* C10: for a request that matches a route, the functions routes() runs are an
\* initial part of: the use() middleware in registration order, each once,
\* then the matched handler; each of them runs only after the one before it
\* called next, so the handler runs only after every middleware called next,
\* and the chain stops only at a function that does not call next. For a
\* request that matches no route none of them runs.
C10_GlobalMiddlewareOrder ==
    \A r \in Reqs :
        LET q == reqs[r]
            U == UserRuns(q)
            n == Len(middlewares)
        IN  Active(q) =>
            IF Recognized(q) /\ Satisfying(parsers[q.method], q.path) # {}
            THEN /\ Len(U) <= n + 1
                 /\ \A i \in 1..Len(U) :
                       IF i <= n
                       THEN U[i].k = "mw" /\ U[i].fn = middlewares[i].id
                       ELSE U[i].k = "route"
                 /\ \A i \in 1..(Len(U) - 1) : U[i].out = "next"
                 /\ Finished(q) =>
                       \/ Len(U) = n + 1
                       \/ (U # <<>> /\ U[Len(U)].out # "next")
            ELSE U = <<>>

\* a finished request that ran m2, then m1, then its handler
C10_Witness ==
    \E r \in Reqs :
        LET q == reqs[r]
            U == UserRuns(q)
        IN  /\ Finished(q)
            /\ middlewares = <<UserFn("m2"), UserFn("m1")>>
            /\ Len(U) = 3
            /\ U[1].fn = "m2" /\ U[2].fn = "m1" /\ U[3].k = "route"


----------------------------------------------------------------------------
(* C11 *)

\* C11: after any sequence of registrations through delete/get/patch/post/put
\* and redirect, for every path the HEAD slot matches if and only if the GET
\* slot matches, and selects the same handler with the same params; so HEAD
\* is in the allowed list of a path whenever GET is.
C11_HeadFollowsGet ==
    \A path \in Paths :
        /\ GetHeadAgree(parsers, path)
        /\ ("GET" \in MatchingMethods(path)) <=> ("HEAD" \in MatchingMethods(path))

----------------------------------------------------------------------------
(* C12 *)

\* C12: for a request with a method of DELETE/GET/HEAD/PATCH/POST/PUT that is
\* in the allowed set of its path, allowedMethods() calls next exactly once
\* and does nothing else: the status, body and params are the ones the
\* matched handler left, no Allow header is written, and no handler or global
\* middleware runs from allowedMethods(): the handler ran once, before it.
C12_AllowedIsDelegated ==
    \A r \in Reqs :
        LET q == reqs[r] IN
        (Active(q) /\ Recognized(q) /\ q.method \in MatchingMethods(q.path)
            /\ AllowedMethodsRan(q)) =>
            /\ q.allowedNext = 1
            /\ q.trace[Len(q.trace)] =
                 Ran("allowedMethods", "allowedMethods", q.ctx.params, "next")
            /\ Len(SelectSeq(q.trace, LAMBDA e : e.k = "allowedMethods")) = 1
            /\ Len(HandlerRuns(q)) = 1
            /\ Len(MiddlewareRuns(q)) = Len(middlewares)
            /\ q.trace[Len(q.trace) - 1].k = "route"
            /\ q.ctx = [NewCtx EXCEPT !.status = 200,
                                      !.body = Some(<<HandlerRuns(q)[1].fn>>),
                                      !.params = HandlerRuns(q)[1].params]
            /\ q.pc = "done"
            /\ q.error = None

\* a POST request whose handler called next, passed on by allowedMethods()
C12_Witness ==
    \E r \in Reqs :
        LET q == reqs[r] IN
        /\ q.pc = "done" /\ q.method = "POST"
        /\ q.allowedNext = 1
        /\ q.ctx.status = 200
        /\ middlewares # <<>>


----------------------------------------------------------------------------
(* C13 *)

\* C13: for a request whose method is OPTIONS or is not one of
\* DELETE/GET/HEAD/PATCH/POST/PUT, routes() calls the downstream next once and
\* does nothing else: no global middleware and no handler runs, and routes()
\* writes nothing to the context (it is untouched when routes() has finished,
\* and params and Location stay unset to the end), whatever the path matches
\* under other methods.
C13_OptionsAndUnknownSkipRouting ==
    \A r \in Reqs :
        LET q == reqs[r] IN
        (Active(q) /\ ~Recognized(q) /\ q.trace # <<>>) =>
            /\ q.trace[1] = Ran("routes", "routes", None, "next")
            /\ q.routesNext = 1
            /\ HandlerRuns(q) = <<>>
            /\ MiddlewareRuns(q) = <<>>
            /\ q.ctx.params = None
            /\ q.ctx.location = None
            /\ Len(q.trace) = 1 => (q.ctx = NewCtx /\ q.todo = Tail(app))

\* routes() has just passed on an OPTIONS request for a path that a GET route
\* matches, with a global middleware installed
C13_Witness ==
    \E r \in Reqs :
        LET q == reqs[r] IN
        /\ q.method = "OPTIONS"
        /\ Len(q.trace) = 1
        /\ q.routesNext = 1
        /\ "GET" \in MatchingMethods(q.path)
        /\ middlewares # <<>>

----------------------------------------------------------------------------
(* C14 *)

\* at most one route handler runs per request, and when several registrations
\* of the request's method match the path it is the earliest in the slot
RunsFirstOfSeveral ==
    \A r \in Reqs :
        LET q == reqs[r]
            slot == parsers[q.method]
        IN  (Active(q) /\ Recognized(q)) =>
                /\ Len(HandlerRuns(q)) <= 1
                /\ (Cardinality(Satisfying(slot, q.path)) >= 2
                      /\ HandlerRuns(q) # <<>>) =>
                       LET first == slot[FirstSatisfying(slot, q.path)] IN
                       /\ HandlerRuns(q)[1].fn = first.middleware.id
                       /\ HandlerRuns(q)[1].params =
                            Some(Extract(first.match, q.path)[1])

\* every step keeps the earlier registrations of every slot in place and in
\* order: a registration goes behind them
RegistrationOrderKept ==
    \A m \in MethodSet :
        /\ Len(parsers'[m]) >= Len(parsers[m])
        /\ SubSeq(parsers'[m], 1, Len(parsers[m])) = parsers[m]

\* C14: when several patterns registered under one method match a request's
\* path, routes() runs the handler of the one registered first and no other:
\* at most one handler runs per request, and the order in a slot is the order
\* of registration.
C14_FirstRegisteredWins == []RunsFirstOfSeveral /\ [][RegistrationOrderKept]_vars

\* a finished request whose path two registrations with different handlers
\* match, answered by the first of them
C14_Witness ==
    \E r \in Reqs :
        LET q == reqs[r]
            slot == parsers[q.method]
        IN  /\ Finished(q) /\ Recognized(q)
            /\ \E i, j \in Satisfying(slot, q.path) :
                   i < j /\ slot[i].middleware # slot[j].middleware
            /\ Len(HandlerRuns(q)) = 1
            /\ HandlerRuns(q)[1].fn =
                 slot[FirstSatisfying(slot, q.path)].middleware.id


----------------------------------------------------------------------------
(* C15 *)

\* routes() found a route for the request and started its chain
Dispatched(q) == q.trace # <<>> /\ q.trace[1].out = "dispatch"

\* the params of the registration routes() selected for the request
MatchedParams(q) ==
    LET slot == parsers[q.method]
    IN  Some(Extract(slot[FirstSatisfying(slot, q.path)].match, q.path)[1])

\* C15 (as claimed): once routes() has matched a request, the matched params
\* are on the context: every global middleware of the chain sees them, and
\* they are there whether or not the chain ever reaches the handler.
C15_ParamsAtMatchTime ==
    \A r \in Reqs :
        LET q == reqs[r] IN
        (Active(q) /\ Dispatched(q)) =>
            /\ q.ctx.params = MatchedParams(q)
            /\ \A i \in 1..Len(MiddlewareRuns(q)) :
                   MiddlewareRuns(q)[i].params = MatchedParams(q)

\* C15 (amended): the matched params are put on the context by the wrapped
\* handler when it runs, after every global middleware has called next: the
\* global middlewares see no params, the handler sees the params of the
\* match, and the context carries them from then on; when a global middleware
\* stops the chain, or fails, the params are never set.
C15_ParamsAtHandlerTime ==
    \A r \in Reqs :
        LET q == reqs[r] IN
        Active(q) =>
            /\ \A i \in 1..Len(MiddlewareRuns(q)) : MiddlewareRuns(q)[i].params = None
            /\ HandlerRuns(q) = <<>> => q.ctx.params = None
            /\ HandlerRuns(q) # <<>> =>
                   /\ Dispatched(q)
                   /\ HandlerRuns(q)[1].params = MatchedParams(q)
                   /\ q.ctx.params = MatchedParams(q)

\* a matched request whose global middleware answered without calling next:
\* it is finished and its context has no params
C15_Witness ==
    \E r \in Reqs :
        LET q == reqs[r] IN
        /\ q.pc = "done" /\ Dispatched(q)
        /\ MiddlewareRuns(q) # <<>>
        /\ MiddlewareRuns(q)[Len(MiddlewareRuns(q))].out = "return"
        /\ MatchedParams(q) # Some({})
        /\ q.ctx.params = None

----------------------------------------------------------------------------
(* C16 *)

\* C16: with routes() ahead of allowedMethods(), a request that routes()
\* matched is never answered by allowedMethods(): no 405, no 501 and no Allow
\* header is written, and when the chain calls next all the way down and the
\* request reaches allowedMethods(), that passes it on and the response stays
\* the handler's.
C16_MatchedIsNotOverwritten ==
    \A r \in Reqs :
        LET q == reqs[r] IN
        (Active(q) /\ Dispatched(q)) =>
            /\ q.ctx.status \notin {405, 501}
            /\ q.ctx.allow = None
            /\ \A i \in 1..Len(q.trace) :
                   q.trace[i].k = "allowedMethods" => q.trace[i].out = "next"
            /\ AllowedMethodsRan(q) =>
                   /\ q.method \in MatchingMethods(q.path)
                   /\ q.ctx.status = 200
                   /\ q.ctx.body = Some(<<HandlerRuns(q)[1].fn>>)

\* a matched HEAD request whose middleware and handler all called next, after
\* allowedMethods() has run
C16_Witness ==
    \E r \in Reqs :
        LET q == reqs[r] IN
        /\ q.method = "HEAD" /\ Dispatched(q)
        /\ AllowedMethodsRan(q)
        /\ q.routesNext = 1
        /\ q.ctx.body # None


----------------------------------------------------------------------------
(* C17 *)

\* a step of request handling changes reqs; it leaves every Parser Slot and
\* the Global Middleware List as they are, and with them the allowed list
\* that allowedMethods() computes for each path
HandlingKeepsTables ==
    reqs' # reqs =>
        /\ parsers' = parsers
        /\ middlewares' = middlewares
        /\ \A path \in Paths :
               allowedMethodsOf(parsers', path) = allowedMethodsOf(parsers, path)

\* a step that changes a Parser Slot or the Global Middleware List is a
\* registration
OnlyRegistrationChangesTables ==
    (parsers' # parsers \/ middlewares' # middlewares) =>
        (Delete \/ Get \/ Patch \/ Post \/ Put \/ Redirect \/ Use)

\* C17: handling a request in routes() or allowedMethods() leaves every Parser
\* Slot and the Global Middleware List unchanged; only delete/get/patch/post/
\* put/redirect/use change them, so allowedMethods() computes the same allowed
\* list for a path however many requests are handled.
C17_HandlingKeepsTables ==
    [][HandlingKeepsTables /\ OnlyRegistrationChangesTables]_vars

\* a request that went through routes(), a global middleware and the handler
\* down to allowedMethods(), in a router with a redirect registered
C17_Witness ==
    \E r \in Reqs :
        LET q == reqs[r] IN
        /\ Finished(q)
        /\ AllowedMethodsRan(q)
        /\ MiddlewareRuns(q) # <<>>
        /\ HandlerRuns(q) # <<>>
        /\ \E i \in 1..Len(parsers["PUT"]) :
               parsers["PUT"][i].middleware.kind = "redirect"

----------------------------------------------------------------------------
(* C18 *)

\* C18: when a global middleware or the matched handler of a request throws,
\* the request fails with that function's failure: the function that threw is
\* the last one that ran, no stage was run again, nothing is left to run,
\* neither the downstream next of routes() nor allowedMethods() was called,
\* and a request fails in no other way.
C18_FailurePropagates ==
    \A r \in Reqs :
        LET q == reqs[r]
            n == Len(q.trace)
        IN  Active(q) =>
            /\ \A i \in 1..n :
                   q.trace[i].out = "throw" =>
                       /\ i = n
                       /\ q.trace[i].k \in {"mw", "route"}
                       /\ q.pc = "failed"
                       /\ q.error = Some(q.trace[i].fn)
                       /\ q.todo = <<>>
                       /\ q.routesNext = 0
                       /\ q.allowedNext = 0
                       /\ ~AllowedMethodsRan(q)
                       /\ Len(MiddlewareRuns(q)) <= Len(middlewares)
                       /\ Len(HandlerRuns(q)) <= 1
                       /\ q.trace[i].k = "mw" =>
                              /\ HandlerRuns(q) = <<>>
                              /\ q.trace[i].fn =
                                   middlewares[Len(MiddlewareRuns(q))].id
            /\ q.pc = "failed" => (n > 0 /\ q.trace[n].out = "throw")

\* a request failed by its second global middleware, after the first called
\* next
C18_Witness ==
    \E r \in Reqs :
        LET q == reqs[r] IN
        /\ q.pc = "failed"
        /\ Len(MiddlewareRuns(q)) = 2
        /\ q.error = Some(middlewares[2].id)
        /\ HandlerRuns(q) = <<>>


----------------------------------------------------------------------------
(* C19 *)

\* C19: with several requests in flight and their steps interleaved, every
\* request runs the chain composed for it and sees the params of its own
\* match: the global middlewares it ran are the router's, in order, the one
\* handler it ran is the handler of the first registration its own path
\* satisfies, that handler saw the params its own path gives, the stages it
\* still has to run carry that same handler and params, and its context
\* carries those params or none.
C19_RequestsIsolated ==
    \A r \in Reqs :
        LET q == reqs[r]
            slot == parsers[q.method]
        IN  (Active(q) /\ q.trace # <<>>) =>
            IF Recognized(q) /\ Satisfying(slot, q.path) # {}
            THEN LET own == slot[FirstSatisfying(slot, q.path)] IN
                 /\ Dispatched(q)
                 /\ Len(HandlerRuns(q)) <= 1
                 /\ \A i \in 1..Len(HandlerRuns(q)) :
                        /\ HandlerRuns(q)[i].fn = own.middleware.id
                        /\ HandlerRuns(q)[i].params = MatchedParams(q)
                 /\ Len(MiddlewareRuns(q)) <= Len(middlewares)
                 /\ \A i \in 1..Len(MiddlewareRuns(q)) :
                        MiddlewareRuns(q)[i].fn = middlewares[i].id
                 /\ \A i \in 1..Len(q.todo) :
                        q.todo[i].k = "route" =>
                            q.todo[i] = Wrapped(MatchedParams(q)[1], own.middleware)
                 /\ q.ctx.params =
                        IF HandlerRuns(q) = <<>> THEN None ELSE MatchedParams(q)
            ELSE /\ UserRuns(q) = <<>>
                 /\ q.ctx.params = None
                 /\ \A i \in 1..Len(q.todo) : q.todo[i].k = "allowedMethods"

\* two requests in flight with different handlers and params: one has run its
\* handler and is on its way to allowedMethods(), the other is suspended
\* between the global middleware and its handler
C19_Witness ==
    \E r1, r2 \in Reqs :
        LET q1 == reqs[r1]
            q2 == reqs[r2]
        IN  /\ r1 # r2
            /\ q1.pc = "run" /\ q2.pc = "run"
            /\ HandlerRuns(q1) # <<>>
            /\ Dispatched(q2) /\ Len(q2.trace) = 2 /\ HandlerRuns(q2) = <<>>
            /\ Head(q2.todo).k = "route"
            /\ Head(q2.todo).params # HandlerRuns(q1)[1].params[1]
            /\ Head(q2.todo).fn.id # HandlerRuns(q1)[1].fn

====
